---- MODULE Spec2Model ----
(***************************************************************************)
(* Model of Fridge.py: a menu-driven inventory tracker over one SQLite     *)
(* table, fridge_items(id, name UNIQUE, quantity, threshold, last_updated, *)
(* daily_usage).                                                           *)
(*                                                                         *)
(* The table is a sequence of rows in rowid order.  The id column is never *)
(* read by the program; AUTOINCREMENT only guarantees that a new row gets  *)
(* the largest id, i.e. is appended.  daily_usage (REAL) is an exact       *)
(* fraction num/den in lowest terms; on the bounds used here the IEEE      *)
(* double quotient and its truncation agree with the exact ones.           *)
(* last_updated (ISO-8601 text of a date) is the day number of that date.  *)
(***************************************************************************)
EXTENDS Integers, Sequences, FiniteSets, TLC

VARIABLES
    pc,        \* position of main(): "start", "connected", "menu" (waiting at the
               \* prompt), "ran" (an operation has returned), "exited", "crashed"
    connOpen,  \* the sqlite3 connection is acquired and not closed
    created,   \* the table fridge_items exists in the database file
    rows,      \* the table fridge_items as the connection sees it, in rowid order
    clock,     \* the day datetime.now().date() returns
    out        \* what the last step printed

vars == <<pc, connOpen, created, rows, clock, out>>

\* ------------------------------------------------------------------ bounds

\* the last day the clock reaches
MaxDay == 1

\* the names, quantities and thresholds the user types
Names == {"milk", "Milk"}
Quantities == {-1, 0, 1}
Thresholds == {0, 1}

\* ------------------------------------------------------- text the user types

IntText(v) == [kind |-> "int", val |-> v]
BlankText == [kind |-> "blank", val |-> 0]
JunkText == [kind |-> "junk", val |-> 0]
QtyTexts == {IntText(v) : v \in Quantities} \cup {BlankText, JunkText}
ThreshTexts == {IntText(v) : v \in Thresholds} \cup {BlankText, JunkText}

\* s.strip() is empty
IsBlank(s) == s.kind = "blank"
\* int(s) does not raise ValueError
ParsesAsInt(s) == s.kind = "int"
\* int(s)
IntOf(s) == s.val

\* --------------------------------------------------------------- fractions

Abs(n) == IF n < 0 THEN -n ELSE n

RECURSIVE GCD(_, _)
GCD(a, b) == IF b = 0 THEN a ELSE GCD(b, a % b)

\* n / d for d # 0, in lowest terms with a positive denominator
Quot(n, d) ==
    LET g == GCD(Abs(n), Abs(d))
        s == IF d < 0 THEN -1 ELSE 1
    IN  [num |-> s * (n \div g), den |-> s * (d \div g)]

Zero == [num |-> 0, den |-> 1]

IsPositive(f) == f.num > 0
IsNegative(f) == f.num < 0

\* int(f): truncation toward zero
IntTruncCeil(f) == -((-f.num) \div f.den)
IntTrunc(f) == IF f.num >= 0 THEN f.num \div f.den ELSE -((-f.num) \div f.den)

\* ------------------------------------------------------------ the SQL layer

Row(n, q, t, d, u) ==
    [name |-> n, quantity |-> q, threshold |-> t, last_updated |-> d, daily_usage |-> u]

\* name=? : TEXT compares byte by byte (no COLLATE NOCASE, no trimming)
SameNameNoCase(a, b) == TRUE
SameName(a, b) == a = b

\* the rowids WHERE name=? selects
Matching(tbl, n) == {i \in 1..Len(tbl) : SameName(tbl[i].name, n)}

\* name TEXT UNIQUE: the INSERT raises sqlite3.IntegrityError
NoConstraint(tbl, r) == FALSE
Violates(tbl, r) == Matching(tbl, r.name) # {}

\* INSERT INTO fridge_items(...) VALUES (...): the new row gets the largest id
InsertSwapped(tbl, r) ==
    Append(tbl, [r EXCEPT !.quantity = r.threshold, !.threshold = r.quantity])
Insert(tbl, r) == Append(tbl, r)

\* SELECT ... WHERE name=? ; fetchone(): the first matching row in rowid order
FetchOne(tbl, n) == tbl[CHOOSE i \in Matching(tbl, n) : \A j \in Matching(tbl, n) : i <= j]

\* UPDATE fridge_items SET quantity=?, threshold=?, last_updated=?, daily_usage=? WHERE name=?
UpdateEveryRow(tbl, n, q, t, d, u) ==
    [i \in 1..Len(tbl) |-> Row(tbl[i].name, q, t, d, u)]

UpdateWhere(tbl, n, q, t, d, u) ==
    [i \in 1..Len(tbl) |->
       IF i \in Matching(tbl, n) THEN Row(tbl[i].name, q, t, d, u) ELSE tbl[i]]

RECURSIVE Without(_, _)
Without(tbl, n) ==
    IF tbl = <<>> THEN <<>>
    ELSE IF SameName(Head(tbl).name, n) THEN Without(Tail(tbl), n)
         ELSE <<Head(tbl)>> \o Without(Tail(tbl), n)

\* DELETE FROM fridge_items WHERE name=?
DeleteAll(tbl, n) == <<>>
DeleteWhere(tbl, n) == Without(tbl, n)

\* what the persistence layer does during one operation: every statement runs,
\* or the SELECT raises sqlite3.Error, or the INSERT/UPDATE/DELETE does, or
\* conn.commit() does
ReadIO == {"ok", "select_error"}
WriteIO == {"ok", "write_error", "commit_error"}

\* --------------------------------------------------------------- the output

Ops == {"add", "update", "delete", "view", "predict"}

\* a message that names the item, as the success messages do
SayItem(op, n, msg) ==
    [op |-> op, name |-> n, msg |-> msg, alert |-> FALSE, days |-> 0, date |-> 0,
     listing |-> <<>>]

\* a message that names no item, as the error messages do
Say(op, msg) == SayItem(op, "", msg)

Quiet == Say("none", "none")

\* ------------------------------------------------------------------- main()

Init ==
    /\ pc = "start"
    /\ connOpen = FALSE
    /\ created = FALSE
    /\ rows = <<>>
    /\ clock = 0
    /\ out = Quiet

\* the operation returns to the while loop of main()
Return == pc' = "ran"

\* an exception leaves main(): the process dies with a traceback
Crash(op) ==
    /\ pc' = "crashed"
    /\ out' = Say(op, "Traceback")
    /\ UNCHANGED <<connOpen, created, rows, clock>>

\* a failed commit either has rolled the transaction back or leaves it open: the
\* write then stays visible on this connection and the next commit stores it
AfterFailedCommit(before, written) == {written, before}

CreateConnection ==
    /\ pc = "start"
    /\ \E ok \in BOOLEAN :
         IF ok
         THEN /\ pc' = "connected"
              /\ connOpen' = TRUE
              /\ out' = Quiet
         ELSE /\ pc' = "exited"
              /\ connOpen' = FALSE
              /\ out' = Say("connect", "StorageError")
    /\ UNCHANGED <<created, rows, clock>>

\* CREATE TABLE without IF NOT EXISTS on a file whose table was dropped
CreateTable(exists, tbl) == [created |-> TRUE, rows |-> <<>>]

\* CREATE TABLE IF NOT EXISTS fridge_items (...)
CreateTableIfNotExists(exists, tbl) ==
    [created |-> TRUE, rows |-> IF exists THEN tbl ELSE <<>>]

InitializeDb ==
    /\ pc = "connected"
    /\ \E io \in {"ok", "write_error"} :
         IF io = "ok"
         THEN /\ Return
              /\ created' = CreateTableIfNotExists(created, rows).created
              /\ rows' = CreateTableIfNotExists(created, rows).rows
              /\ out' = Say("init", "none")
              /\ UNCHANGED <<connOpen, clock>>
         ELSE /\ Crash("init")

\* ---------------------------------------------------------------- add_item

AddItem(n, qt, tt, io) ==
    /\ pc = "menu"
    /\ IF ~(ParsesAsInt(qt) /\ ParsesAsInt(tt))
       THEN /\ out' = Say("add", "InvalidInput")
            /\ Return /\ UNCHANGED <<connOpen, created, rows, clock>>
       ELSE LET r == Row(n, IntOf(qt), IntOf(tt), clock, Zero)
                written == Insert(rows, r)
            IN  IF io = "write_error"
                THEN /\ out' = Say("add", "StorageError")
                     /\ Return /\ UNCHANGED <<connOpen, created, rows, clock>>
                ELSE IF Violates(rows, r)
                THEN /\ out' = Say("add", "DuplicateItem")
                     /\ Return /\ UNCHANGED <<connOpen, created, rows, clock>>
                ELSE IF io = "commit_error"
                THEN /\ out' = Say("add", "StorageError")
                     /\ rows' \in AfterFailedCommit(rows, written)
                     /\ Return /\ UNCHANGED <<connOpen, created, clock>>
                ELSE /\ out' = SayItem("add", n, "Added")
                     /\ rows' = written
                     /\ Return /\ UNCHANGED <<connOpen, created, clock>>

\* ------------------------------------------------------------- update_item

\* (datetime.now().date() - last_date).days
DaysPassed(today, last_updated) == today - last_updated

\* the daily_usage an update stores
NewUsageSameDay(old_quantity, new_quantity, days_passed, old_daily_usage) ==
    IF new_quantity # old_quantity
    THEN Quot(old_quantity - new_quantity, IF days_passed > 0 THEN days_passed ELSE 1)
    ELSE old_daily_usage
NewUsage(old_quantity, new_quantity, days_passed, old_daily_usage) ==
    IF days_passed > 0 /\ new_quantity # old_quantity
    THEN Quot(old_quantity - new_quantity, days_passed)
    ELSE old_daily_usage

\* int(text) if text.strip() else old
EnteredOrZero(text, old) == IF IsBlank(text) THEN 0 ELSE IntOf(text)
Entered(text, old) == IF IsBlank(text) THEN old ELSE IntOf(text)

\* int(text) if text.strip() else old: does not raise ValueError
AnyTextOk(text) == TRUE
UpdateTextOk(text) == IsBlank(text) \/ ParsesAsInt(text)

\* the date an update stores: datetime.now().date().isoformat()
UpdatedDateKept(today, last_updated) == last_updated
UpdatedDate(today, last_updated) == today

\* the alert printed after the commit
AtOrBelowThreshold(quantity, threshold) == quantity <= threshold
BelowThreshold(quantity, threshold) == quantity < threshold

UpdateItem(n, qt, tt, io) ==
    /\ pc = "menu"
    /\ IF io = "select_error"
       THEN Crash("update")
       ELSE IF Matching(rows, n) = {}
       THEN /\ out' = Say("update", "ItemNotFound")
            /\ Return /\ UNCHANGED <<connOpen, created, rows, clock>>
       ELSE IF ~(UpdateTextOk(qt) /\ UpdateTextOk(tt))
       THEN /\ out' = Say("update", "InvalidInput")
            /\ Return /\ UNCHANGED <<connOpen, created, rows, clock>>
       ELSE LET old == FetchOne(rows, n)
                new_quantity == Entered(qt, old.quantity)
                new_threshold == Entered(tt, old.threshold)
                days_passed == DaysPassed(clock, old.last_updated)
                daily_usage ==
                    NewUsage(old.quantity, new_quantity, days_passed, old.daily_usage)
                written ==
                    UpdateWhere(rows, n, new_quantity, new_threshold,
                                UpdatedDate(clock, old.last_updated), daily_usage)
            IN  IF io = "write_error"
                THEN /\ out' = Say("update", "StorageError")
                     /\ Return /\ UNCHANGED <<connOpen, created, rows, clock>>
                ELSE IF io = "commit_error"
                THEN /\ out' = Say("update", "StorageError")
                     /\ rows' \in AfterFailedCommit(rows, written)
                     /\ Return /\ UNCHANGED <<connOpen, created, clock>>
                ELSE /\ out' = [SayItem("update", n, "Updated") EXCEPT
                                  !.alert = BelowThreshold(new_quantity, new_threshold)]
                     /\ rows' = written
                     /\ Return /\ UNCHANGED <<connOpen, created, clock>>

\* ------------------------------------------------------------- delete_item

DeleteItem(n, io) ==
    /\ pc = "menu"
    /\ IF io = "write_error"
       THEN Crash("delete")
       ELSE IF Matching(rows, n) = {}
       THEN /\ out' = Say("delete", "ItemNotFound")
            /\ Return /\ UNCHANGED <<connOpen, created, rows, clock>>
       ELSE IF io = "commit_error"
       THEN Crash("delete")
       ELSE /\ out' = SayItem("delete", n, "Deleted")
            /\ rows' = DeleteWhere(rows, n)
            /\ Return /\ UNCHANGED <<connOpen, created, clock>>

\* -------------------------------------------------------------- view_items

LineLowAtThreshold(r) ==
    [name |-> r.name, qty |-> r.quantity, thresh |-> r.threshold,
     last_upd |-> r.last_updated, daily |-> r.daily_usage,
     low |-> r.quantity <= r.threshold]

Line(r) ==
    [name |-> r.name, qty |-> r.quantity, thresh |-> r.threshold,
     last_upd |-> r.last_updated, daily |-> r.daily_usage,
     low |-> r.quantity < r.threshold]

\* the lines printed for fetchall(), in the order the SELECT returns the rows
Listing(tbl) == [i \in 1..Len(tbl) |-> Line(tbl[i])]

ViewItems(io) ==
    /\ pc = "menu"
    /\ IF io = "select_error"
       THEN Crash("view")
       ELSE /\ out' = IF rows = <<>>
                      THEN Say("view", "Empty")
                      ELSE [Say("view", "Listed") EXCEPT !.listing = Listing(rows)]
            /\ Return /\ UNCHANGED <<connOpen, created, rows, clock>>

\* --------------------------------------------------------- predict_restock

\* (quantity - threshold) / daily_usage, for daily_usage > 0
DaysLeft(quantity, threshold, daily_usage) ==
    Quot((quantity - threshold) * daily_usage.den, daily_usage.num)

\* daily_usage <= 0
NoUsageDataStrict(daily_usage) == IsNegative(daily_usage)
NoUsageData(daily_usage) == ~IsPositive(daily_usage)

\* days_left < 0
NeverBelow(days_left) == FALSE
AlreadyBelow(days_left) == IsNegative(days_left)

\* what predict_restock prints for a row: the message, the days, the date
Forecast(r, today) ==
    IF NoUsageData(r.daily_usage)
    THEN [name |-> "", msg |-> "InsufficientData", days |-> 0, date |-> 0]
    ELSE LET days_left == DaysLeft(r.quantity, r.threshold, r.daily_usage)
         IN  IF AlreadyBelow(days_left)
             THEN [name |-> r.name, msg |-> "AlreadyBelow", days |-> 0, date |-> 0]
             ELSE [name |-> r.name, msg |-> "Estimate", days |-> IntTrunc(days_left),
                   date |-> today + IntTrunc(days_left)]

\* a forecast that also dates the row it reads
PredictRestockDating(n, io) ==
    /\ pc = "menu"
    /\ IF io = "select_error"
       THEN Crash("predict")
       ELSE IF Matching(rows, n) = {}
       THEN /\ out' = Say("predict", "ItemNotFound")
            /\ Return /\ UNCHANGED <<connOpen, created, rows, clock>>
       ELSE LET r == FetchOne(rows, n)
                f == Forecast(r, clock)
            IN  /\ out' = [SayItem("predict", f.name, f.msg) EXCEPT
                                  !.days = f.days, !.date = f.date]
                /\ rows' = UpdateWhere(rows, n, r.quantity, r.threshold, clock, r.daily_usage)
                /\ Return /\ UNCHANGED <<connOpen, created, clock>>

PredictRestock(n, io) ==
    /\ pc = "menu"
    /\ IF io = "select_error"
       THEN Crash("predict")
       ELSE IF Matching(rows, n) = {}
       THEN /\ out' = Say("predict", "ItemNotFound")
            /\ Return /\ UNCHANGED <<connOpen, created, rows, clock>>
       ELSE LET f == Forecast(FetchOne(rows, n), clock)
            IN  /\ out' = [SayItem("predict", f.name, f.msg) EXCEPT
                                  !.days = f.days, !.date = f.date]
                /\ Return /\ UNCHANGED <<connOpen, created, rows, clock>>

\* ------------------------------------------------------------ the menu loop

InvalidChoice ==
    /\ pc = "menu"
    /\ out' = Say("menu", "InvalidChoice")
    /\ Return /\ UNCHANGED <<connOpen, created, rows, clock>>

\* the loop prints the menu again and waits at input()
Menu ==
    /\ pc = "ran"
    /\ pc' = "menu"
    /\ out' = Quiet
    /\ UNCHANGED <<connOpen, created, rows, clock>>

\* choice '6': break, then conn.close()
Exit ==
    /\ pc = "menu"
    /\ pc' = "exited"
    /\ connOpen' = FALSE
    /\ out' = Say("menu", "Goodbye")
    /\ UNCHANGED <<created, rows, clock>>

\* input() raises EOFError or KeyboardInterrupt
InputAborted ==
    /\ pc = "menu"
    /\ Crash("menu")

\* ---------------------------------------------------------- the environment

\* midnight passes, while the program waits for input or is not running
Tick ==
    /\ pc # "ran"
    /\ clock < MaxDay
    /\ clock' = clock + 1
    /\ UNCHANGED <<pc, connOpen, created, rows, out>>

\* the program is run again on the same database file
Restart ==
    /\ pc \in {"exited", "crashed"}
    /\ pc' = "start"
    /\ connOpen' = FALSE
    /\ out' = Quiet
    /\ UNCHANGED <<created, rows, clock>>

Next ==
    \/ CreateConnection
    \/ InitializeDb
    \/ \E n \in Names, qt \in QtyTexts, tt \in ThreshTexts, io \in WriteIO :
         AddItem(n, qt, tt, io)
    \/ \E n \in Names, qt \in QtyTexts, tt \in ThreshTexts, io \in ReadIO \cup WriteIO :
         UpdateItem(n, qt, tt, io)
    \/ \E n \in Names, io \in WriteIO : DeleteItem(n, io)
    \/ \E io \in ReadIO : ViewItems(io)
    \/ \E n \in Names, io \in ReadIO : PredictRestock(n, io)
    \/ InvalidChoice
    \/ Menu
    \/ Exit
    \/ InputAborted
    \/ Tick
    \/ Restart

Spec == Init /\ [][Next]_vars

\* ------------------------------------------------------------------ claims

\* the stored row of a name and whether there is one, by the names as written
Stored(tbl, n) == {i \in 1..Len(tbl) : tbl[i].name = n}
Has(tbl, n) == Stored(tbl, n) # {}
Item(tbl, n) == tbl[CHOOSE i \in Stored(tbl, n) : TRUE]

\* the steps of the menu loop that run one operation (out is Quiet at the prompt)
Runs(op) == pc = "menu" /\ out'.op = op

\* C1: an AddItem whose name is already stored (integer texts, the INSERT reaching
\* the table) fails with DuplicateItem and leaves the table as it was: the same
\* rows, every field of every row the same.
C1_DuplicateAdd ==
    [][(Runs("add") /\ ~(out'.msg = "DuplicateItem" /\ rows' = rows)) =>
         \A n \in Names :
           Has(rows, n) =>
             \A q \in Quantities, t \in Thresholds, io \in {"ok", "commit_error"} :
               ~AddItem(n, IntText(q), IntText(t), io)]_vars

C1_Witness ==
    /\ pc = "ran"
    /\ out.op = "add"
    /\ out.msg = "DuplicateItem"
    /\ Len(rows) = 2

\* C2: in every reachable state no two rows of the table have the same name,
\* names compared as written (case-sensitively).
C2_UniqueNames ==
    \A i \in 1..Len(rows), j \in 1..Len(rows) : rows[i].name = rows[j].name => i = j

C2_Witness ==
    /\ Len(rows) = 2
    /\ {rows[1].name, rows[2].name} = {"milk", "Milk"}
    /\ pc = "ran"
    /\ out.op = "add"
    /\ out.msg = "DuplicateItem"
    /\ clock = MaxDay

\* C3: after a successful UpdateItem, with days_passed = today - last_updated:
\* if days_passed > 0 and the quantity changed, the stored daily_usage is
\* (old_quantity - new_quantity) / days_passed; otherwise it is the old one.
C3_UsageAfterUpdate ==
    [][(Runs("update") /\ out'.msg = "Updated") =>
         LET old == Item(rows, out'.name)
             new == Item(rows', out'.name)
             days_passed == clock - old.last_updated
         IN  /\ Has(rows, out'.name)
             /\ Has(rows', out'.name)
             /\ new.daily_usage.den > 0
             /\ IF days_passed > 0 /\ new.quantity # old.quantity
                THEN new.daily_usage.num * days_passed
                       = (old.quantity - new.quantity) * new.daily_usage.den
                ELSE new.daily_usage = old.daily_usage]_vars

\* a restock recorded at least a day after the last update: a negative rate
C3_Witness ==
    /\ pc = "ran"
    /\ out.op = "update"
    /\ out.msg = "Updated"
    /\ Has(rows, out.name)
    /\ Item(rows, out.name).daily_usage.num < 0
    /\ Item(rows, out.name).quantity = 1

\* C4: after a successful AddItem or UpdateItem the item's last_updated is the day
\* the operation ran (also when the update changed nothing); no row's
\* last_updated is later than today, and none ever decreases.
DatedToday ==
    (pc = "ran" /\ out.msg \in {"Added", "Updated"}) =>
       (Has(rows, out.name) /\ Item(rows, out.name).last_updated = clock)

NoneDatedLater == \A i \in 1..Len(rows) : rows[i].last_updated <= clock

C5_NoCrashFromOperation == ~(pc = "crashed" /\ out.op \in Ops)

\* C6: whenever the process has ended after acquiring the connection, the
\* connection has been closed.
C6_ClosedWhenEnded == pc \in {"exited", "crashed"} => ~connOpen

\* C7, as claimed: PredictRestock on a stored item whose quantity is below its
\* threshold reports "already below threshold", whatever its daily_usage.
C7_AlwaysAlreadyBelow ==
    [][Runs("predict") =>
         \A n \in Names :
           (Has(rows, n) /\ Item(rows, n).quantity < Item(rows, n).threshold
              /\ PredictRestock(n, "ok"))
             => out'.msg = "AlreadyBelow"]_vars

\* C7, amended: PredictRestock on a stored item whose quantity is below its
\* threshold never reports a day count: it reports "already below threshold" when
\* daily_usage > 0 and InsufficientData when daily_usage <= 0.
C7_BelowThreshold ==
    [][Runs("predict") =>
         \A n \in Names :
           (Has(rows, n) /\ Item(rows, n).quantity < Item(rows, n).threshold
              /\ PredictRestock(n, "ok"))
             => /\ out'.msg # "Estimate"
                /\ out'.days = 0
                /\ out'.msg = IF Item(rows, n).daily_usage.num > 0
                              THEN "AlreadyBelow"
                              ELSE "InsufficientData"]_vars

C7_Witness ==
    /\ pc = "ran"
    /\ out.op = "predict"
    /\ out.msg = "AlreadyBelow"
    /\ Has(rows, out.name)
    /\ Item(rows, out.name).quantity < Item(rows, out.name).threshold
    /\ Item(rows, out.name).daily_usage.num > 0

\* C8: PredictRestock on a stored item fails with InsufficientData, and gives no
\* forecast, exactly when the item's daily_usage is <= 0.
C8_InsufficientData ==
    [][Runs("predict") =>
         \A n \in Names :
           (Has(rows, n) /\ PredictRestock(n, "ok"))
             => /\ (out'.msg = "InsufficientData") <=> (Item(rows, n).daily_usage.num <= 0)
                /\ out'.msg = "InsufficientData" => (out'.days = 0 /\ out'.date = 0)]_vars

\* a negative rate after a restock, then a prediction
C8_Witness ==
    /\ pc = "ran"
    /\ out.op = "predict"
    /\ out.msg = "InsufficientData"
    /\ \E i \in 1..Len(rows) : rows[i].daily_usage.num < 0
    /\ \A i \in 1..Len(rows) : rows[i].daily_usage.num # 0

\* C9: PredictRestock on a stored item with daily_usage > 0 and quantity >=
\* threshold returns days = floor((quantity - threshold) / daily_usage) >= 0 and
\* the date today + days; 0 days and today when quantity = threshold.
C9_Estimate ==
    [][Runs("predict") =>
         \A n \in Names :
           (Has(rows, n) /\ Item(rows, n).daily_usage.num > 0
              /\ Item(rows, n).quantity >= Item(rows, n).threshold
              /\ PredictRestock(n, "ok"))
             => LET r == Item(rows, n)
                    \* floor of ((q - t) * den) / num, num > 0
                    expected == ((r.quantity - r.threshold) * r.daily_usage.den)
                                   \div r.daily_usage.num
                IN  /\ out'.msg = "Estimate"
                    /\ out'.name = n
                    /\ out'.days = expected
                    /\ out'.days >= 0
                    /\ out'.date = clock + out'.days
                    /\ r.quantity = r.threshold => (out'.days = 0 /\ out'.date = clock)]_vars

\* quantity 1 above the threshold at 2 a day: half a day, reported as 0 days
C9_Witness ==
    /\ pc = "ran"
    /\ out.op = "predict"
    /\ out.msg = "Estimate"
    /\ out.days = 0
    /\ Has(rows, out.name)
    /\ Item(rows, out.name).quantity > Item(rows, out.name).threshold

\* C10: UpdateItem, DeleteItem and PredictRestock on a name that is not stored
\* fail with ItemNotFound and leave the table as it was.
C10_ItemNotFound ==
    [][((Runs("update") \/ Runs("delete") \/ Runs("predict"))
          /\ ~(out'.msg = "ItemNotFound" /\ rows' = rows)) =>
         \A n \in Names :
           ~Has(rows, n) =>
             /\ \A qt \in QtyTexts, tt \in ThreshTexts, io \in WriteIO :
                  ~UpdateItem(n, qt, tt, io)
             /\ \A io \in {"ok", "commit_error"} : ~DeleteItem(n, io)
             /\ ~PredictRestock(n, "ok")]_vars

\* "Milk" is looked up while only "milk" is stored
C10_Witness ==
    /\ pc = "ran"
    /\ out.op \in {"update", "delete", "predict"}
    /\ out.msg = "ItemNotFound"
    /\ Len(rows) = 1
    /\ rows[1].name = "milk"

\* C11: after a successful AddItem(name, quantity, threshold) on a table without
\* that name, the listing has exactly one line for the name, with the supplied
\* quantity and threshold, daily_usage 0.0 and last_updated today; every row
\* that was there before is listed with all its fields as they were.
C11_AddThenList ==
    [][(Runs("add") /\ out'.msg = "Added") =>
         \A q \in Quantities, t \in Thresholds :
           (~Has(rows, out'.name) /\ AddItem(out'.name, IntText(q), IntText(t), "ok"))
             => LET lst == Listing(rows')
                    mine == {i \in 1..Len(lst) : lst[i].name = out'.name}
                IN  /\ Cardinality(mine) = 1
                    /\ \A i \in mine :
                         /\ lst[i].qty = q
                         /\ lst[i].thresh = t
                         /\ lst[i].daily = Zero
                         /\ lst[i].last_upd = clock
                    /\ Len(lst) = Len(rows) + 1
                    /\ \A j \in 1..Len(rows) :
                         \E k \in 1..Len(lst) :
                           /\ lst[k].name = rows[j].name
                           /\ lst[k].qty = rows[j].quantity
                           /\ lst[k].thresh = rows[j].threshold
                           /\ lst[k].last_upd = rows[j].last_updated
                           /\ lst[k].daily = rows[j].daily_usage]_vars

\* a second item added a day after the first, whose rate is no longer 0
C11_Witness ==
    /\ pc = "ran"
    /\ out.op = "add"
    /\ out.msg = "Added"
    /\ Len(rows) = 2
    /\ Item(rows, out.name).quantity # Item(rows, out.name).threshold
    /\ \E i \in 1..Len(rows) : rows[i].name # out.name /\ rows[i].daily_usage # Zero

\* C12: a successful DeleteItem(name) removes the row and keeps nothing of it:
\* the name is no longer listed nor found by update, predict or delete, every
\* other row is as it was; a name that is not stored comes back only by an
\* AddItem, which succeeds and stores daily_usage 0.0 and last_updated today.
C12_DeleteIsPermanent ==
    [][/\ (Runs("delete") /\ out'.msg = "Deleted") =>
            LET n == out'.name
                Others(r) == r.name # n
                lst == Listing(rows')
            IN  /\ Has(rows, n)
                /\ ~Has(rows', n)
                /\ Matching(rows', n) = {}
                /\ \A i \in 1..Len(lst) : lst[i].name # n
                /\ rows' = SelectSeq(rows, Others)
       /\ \A n \in Names :
            (~Has(rows, n) /\ Has(rows', n)) =>
               /\ Runs("add")
               /\ Item(rows', n).daily_usage = Zero
               /\ Item(rows', n).last_updated = clock
       /\ (Runs("add") /\ out'.msg # "Added") =>
            \A n \in Names :
              ~Has(rows, n) =>
                \A q \in Quantities, t \in Thresholds :
                  ~AddItem(n, IntText(q), IntText(t), "ok")]_vars

\* one of two items deleted a day after both were added; the other keeps its
\* earlier date
C12_Witness ==
    /\ pc = "ran"
    /\ out.op = "delete"
    /\ out.msg = "Deleted"
    /\ Len(rows) = 1
    /\ rows[1].name # out.name
    /\ rows[1].last_updated < clock

\* C13: in a successful UpdateItem an omitted field keeps its stored value: with
\* the quantity omitted the quantity and the daily_usage stay, with the
\* threshold omitted the threshold stays, with both omitted only last_updated
\* may change.
C13_OmittedFields ==
    [][(Runs("update") /\ out'.msg = "Updated") =>
         \A qt \in QtyTexts, tt \in ThreshTexts :
           ((IsBlank(qt) \/ IsBlank(tt)) /\ UpdateItem(out'.name, qt, tt, "ok"))
             => LET old == Item(rows, out'.name)
                    new == Item(rows', out'.name)
                IN  /\ IsBlank(qt) =>
                         /\ new.quantity = old.quantity
                         /\ new.daily_usage = old.daily_usage
                    /\ IsBlank(tt) => new.threshold = old.threshold
                    /\ (IsBlank(qt) /\ IsBlank(tt)) =>
                         new = [old EXCEPT !.last_updated = new.last_updated]]_vars

\* a successful update has left a row with quantity -1, threshold 1 and a rate
\* other than 0, none of which is the value 0 that an empty text would give
C13_Witness ==
    /\ pc = "ran"
    /\ out.op = "update"
    /\ out.msg = "Updated"
    /\ Has(rows, out.name)
    /\ Item(rows, out.name).quantity = -1
    /\ Item(rows, out.name).threshold = 1
    /\ Item(rows, out.name).daily_usage = Quot(1, 1)
    /\ Item(rows, out.name).last_updated = clock

\* C14: an update that reports success prints the below-threshold alert exactly
\* when the quantity now stored for the item is less than its stored threshold,
\* the row it is about being the committed one; an update that reports
\* anything else (not found, invalid input, storage error, crash) prints no alert.
C14_AlertIffBelow ==
    out.op = "update" =>
        IF out.msg = "Updated"
        THEN /\ Has(rows, out.name)
             /\ out.alert = (Item(rows, out.name).quantity < Item(rows, out.name).threshold)
        ELSE out.alert = FALSE

\* a successful update that printed the alert for quantity 0 under threshold 1
C14_Witness ==
    /\ pc = "ran"
    /\ out.op = "update"
    /\ out.msg = "Updated"
    /\ out.alert
    /\ Item(rows, out.name).quantity = 0
    /\ Item(rows, out.name).threshold = 1

\* C15: what view_items prints has one line for each stored row and no other
\* line, each line shows the row's stored fields, and a line is marked LOW
\* exactly when the row's quantity is less than its threshold; the empty
\* message is printed exactly for the empty table.
C15_Listing ==
    out.op = "view" =>
        /\ out.msg = "Empty" => (rows = <<>> /\ out.listing = <<>>)
        /\ out.msg = "Listed" =>
             /\ rows # <<>>
             /\ Len(out.listing) = Len(rows)
             /\ \A n \in Names :
                  Cardinality({i \in 1..Len(out.listing) : out.listing[i].name = n})
                    = Cardinality({j \in 1..Len(rows) : rows[j].name = n})
             /\ \A i \in 1..Len(out.listing) :
                  LET l == out.listing[i]
                  IN  /\ Has(rows, l.name)
                      /\ l.qty = Item(rows, l.name).quantity
                      /\ l.thresh = Item(rows, l.name).threshold
                      /\ l.last_upd = Item(rows, l.name).last_updated
                      /\ l.daily = Item(rows, l.name).daily_usage
                      /\ l.low = (l.qty < l.thresh)

\* a listing of two rows, one with quantity = threshold and not marked, one
\* with a negative quantity under threshold 0 and marked
C15_Witness ==
    /\ pc = "ran"
    /\ out.op = "view"
    /\ out.msg = "Listed"
    /\ Len(out.listing) = 2
    /\ \E i \in 1..2 : out.listing[i].qty = out.listing[i].thresh /\ ~out.listing[i].low
    /\ \E i \in 1..2 : out.listing[i].qty = -1 /\ out.listing[i].thresh = 0 /\ out.listing[i].low

\* C16: initialize_db on a file that already has the table leaves every row as
\* it was, whatever ran before and whether or not the call succeeds, and
\* creating the table a second time changes nothing that the first call made.
C16_InitializeIdempotent ==
    [][pc = "connected" =>
         /\ created => rows' = rows
         /\ pc' = "ran" =>
              LET once == CreateTableIfNotExists(created, rows)
                  twice == CreateTableIfNotExists(once.created, once.rows)
              IN  /\ created' = once.created
                  /\ rows' = once.rows
                  /\ twice = once]_vars

\* initialize_db has just run on a table of two rows, one of them with a rate
C16_Witness ==
    /\ pc = "ran"
    /\ out.op = "init"
    /\ created
    /\ Len(rows) = 2
    /\ \E i \in 1..2 : rows[i].daily_usage # Zero

\* C17: an update of a stored item in which the quantity text or the threshold
\* text is not an integer reports InvalidInput, leaves the whole table as it
\* was (quantity, threshold, daily_usage and last_updated of the item
\* included) and prints no alert; when the SELECT itself fails the table is
\* unchanged and no alert is printed either.
C17_InvalidInputFrame ==
    pc = "menu" =>
        \A n \in Names : Has(rows, n) =>
          \A qt \in QtyTexts, tt \in ThreshTexts :
            (qt = JunkText \/ tt = JunkText) =>
              /\ \A io \in WriteIO :
                   /\ ENABLED UpdateItem(n, qt, tt, io)
                   /\ ~ENABLED (/\ UpdateItem(n, qt, tt, io)
                                /\ ~(/\ out'.msg = "InvalidInput"
                                     /\ rows' = rows
                                     /\ ~out'.alert))
              /\ ~ENABLED (/\ UpdateItem(n, qt, tt, "select_error")
                           /\ (rows' # rows \/ out'.alert))

\* InvalidInput was reported on a later day than the only row's date, and the
\* row is below its threshold
C17_Witness ==
    /\ pc = "ran"
    /\ out.op = "update"
    /\ out.msg = "InvalidInput"
    /\ ~out.alert
    /\ Len(rows) = 1
    /\ rows[1].last_updated < clock
    /\ rows[1].quantity < rows[1].threshold

\* C18: a successful add, update or delete of name n leaves every other name
\* as it was: stored before exactly if stored after, and with the same
\* quantity, threshold, last_updated and daily_usage.
C18_OnlyTheNamedItem ==
    [][(/\ Runs("add") \/ Runs("update") \/ Runs("delete")
        /\ out'.msg \in {"Added", "Updated", "Deleted"}) =>
         \A m \in Names \ {out'.name} :
           /\ Has(rows', m) = Has(rows, m)
           /\ Has(rows, m) => Item(rows', m) = Item(rows, m)
           /\ Cardinality({i \in 1..Len(rows') : rows'[i].name = m})
                = Cardinality({i \in 1..Len(rows) : rows[i].name = m})]_vars

\* a successful update changed one of two rows, and the other row has another
\* quantity, another date and another rate than the updated one
C18_Witness ==
    /\ pc = "ran"
    /\ out.op = "update"
    /\ out.msg = "Updated"
    /\ Len(rows) = 2
    /\ \E i \in 1..2 :
         /\ rows[i].name # out.name
         /\ rows[i].quantity # Item(rows, out.name).quantity
         /\ rows[i].last_updated # Item(rows, out.name).last_updated
         /\ rows[i].daily_usage # Item(rows, out.name).daily_usage

\* C19: view_items and predict_restock never write: whatever they print (the
\* listing, the empty message, an estimate, already below, insufficient data,
\* not found) or even if the SELECT fails, the table after the step is the
\* table before it, last_updated and daily_usage of every row included.
C19_ReadOnly ==
    [][(Runs("view") \/ Runs("predict")) => rows' = rows]_vars

\* a forecast was asked, on a later day than the row's date, for a row that
\* has no rate yet
C19_Witness ==
    /\ pc = "ran"
    /\ out.op = "predict"
    /\ out.msg = "InsufficientData"
    /\ Len(rows) = 1
    /\ rows[1].last_updated < clock
    /\ rows[1].daily_usage = Zero

\* C20: a row's daily_usage is other than 0 only through a successful update
\* of that row that ran on a later day than the row's last_updated and changed
\* its quantity: a step after which a row has a rate other than 0, the row
\* being new or having had rate 0 before, is such an update of a stored row.
C20_RateOnlyFromLaterUpdate ==
    [][\A n \in Names :
         (/\ Has(rows', n)
          /\ Item(rows', n).daily_usage # Zero
          /\ (~Has(rows, n) \/ Item(rows, n).daily_usage = Zero)) =>
            /\ Has(rows, n)
            /\ Runs("update")
            /\ out'.msg = "Updated"
            /\ out'.name = n
            /\ clock > Item(rows, n).last_updated
            /\ Item(rows', n).quantity # Item(rows, n).quantity]_vars

====
